---- MODULE Spec2Model ----
(***************************************************************************)
(* Cache-aside layer of the Temalith gateway (server.js): the weather,     *)
(* forecast, news and stock handlers in front of a Redis store, and the    *)
(* news preload sweep behind GET /backup.                                  *)
(*                                                                         *)
(* Strings are sequences of one-character strings.  A JavaScript value is  *)
(* a tagged tuple: <<"null">>, <<"number", n>>, <<"string", s>>,           *)
(* <<"object", fields>> with fields a sequence of <<key, value>> pairs.    *)
(* Time is in seconds.                                                     *)
(***************************************************************************)
EXTENDS Integers, Sequences, FiniteSets, TLC

(* ------------------------------ bounds -------------------------------- *)
\* invocations of GET /api/stocks per run
MaxCalls == 2
\* events of the environment per run: a clock advance, a change of the
\* providers' data, a failure of an upstream or store call, a write to the
\* store by another client of the same Redis
MaxEvents == 2

\* request slots of the single-key handlers (weather, forecast, news)
Procs == {1, 2}

(* ------------------------------ strings ------------------------------- *)
Lowers ==
  <<"a","b","c","d","e","f","g","h","i","j","k","l","m",
    "n","o","p","q","r","s","t","u","v","w","x","y","z">>
Uppers ==
  <<"A","B","C","D","E","F","G","H","I","J","K","L","M",
    "N","O","P","Q","R","S","T","U","V","W","X","Y","Z">>
DigitChars == <<"0","1","2","3","4","5","6","7","8","9">>

IsIn(c, t) == \E j \in 1..Len(t) : t[j] = c
IndexIn(c, t) == CHOOSE j \in 1..Len(t) : t[j] = c

\* String.prototype.toLowerCase / toUpperCase on the ASCII letters
toLowerCase(s) ==
  [i \in 1..Len(s) |-> IF IsIn(s[i], Uppers) THEN Lowers[IndexIn(s[i], Uppers)] ELSE s[i]]
toUpperCase(s) ==
  [i \in 1..Len(s) |-> IF IsIn(s[i], Lowers) THEN Uppers[IndexIn(s[i], Lowers)] ELSE s[i]]

(* ------------------------------ cache keys ---------------------------- *)
rediswea(city) == <<"w","e","a","t","h","e","r",":">> \o toLowerCase(city)
redisForecastKey(city) == <<"f","o","r","e","c","a","s","t",":">> \o toLowerCase(city)
redisKey(country, category) == <<"g","n","e","w","s",":">> \o country \o <<":">> \o category
redisStockKey(symbol) == <<"s","t","o","c","k",":">> \o toUpperCase(symbol)

(* ------------------------------ JSON ---------------------------------- *)
JsNull == <<"null">>
JsNum(n) == <<"number", n>>
JsStr(s) == <<"string", s>>
JsObj(fields) == <<"object", fields>>
\* what JSON.parse throws
SyntaxError == <<"SyntaxError">>

RECURSIVE Digits(_)
Digits(n) ==
  IF n < 10 THEN <<DigitChars[n + 1]>>
  ELSE Digits(n \div 10) \o <<DigitChars[(n % 10) + 1]>>

Quote == "\""

RECURSIVE JSONstringify(_)
RECURSIVE StringifyFields(_, _)
StringifyFields(fields, i) ==
  IF i > Len(fields) THEN <<>>
  ELSE (IF i > 1 THEN <<",">> ELSE <<>>)
       \o <<Quote>> \o fields[i][1] \o <<Quote, ":">>
       \o JSONstringify(fields[i][2])
       \o StringifyFields(fields, i + 1)
JSONstringify(v) ==
  CASE v[1] = "null" -> <<"n","u","l","l">>
    [] v[1] = "number" -> Digits(v[2])
    [] v[1] = "string" -> <<Quote>> \o v[2] \o <<Quote>>
    [] v[1] = "object" -> <<"{">> \o StringifyFields(v[2], 1) \o <<"}">>

\* The parser returns <<TRUE, value, next index>> or <<FALSE>>.
PFail == <<FALSE>>
At(s, i) == IF i <= Len(s) THEN s[i] ELSE "EOF"

RECURSIVE ParseDigits(_, _, _)
ParseDigits(s, i, acc) ==
  IF IsIn(At(s, i), DigitChars)
  THEN ParseDigits(s, i + 1, acc * 10 + (IndexIn(s[i], DigitChars) - 1))
  ELSE <<TRUE, JsNum(acc), i>>

RECURSIVE ParseChars(_, _, _)
ParseChars(s, i, acc) ==
  CASE At(s, i) = "EOF" -> PFail
    [] At(s, i) = "\\" -> PFail
    [] At(s, i) = Quote -> <<TRUE, JsStr(acc), i + 1>>
    [] OTHER -> ParseChars(s, i + 1, Append(acc, s[i]))

RECURSIVE ParseValue(_, _)
RECURSIVE ParseMembers(_, _, _)
ParseMembers(s, i, acc) ==
  IF At(s, i) # Quote THEN PFail
  ELSE LET k == ParseChars(s, i + 1, <<>>) IN
       IF ~k[1] \/ At(s, k[3]) # ":" THEN PFail
       ELSE LET v == ParseValue(s, k[3] + 1) IN
            IF ~v[1] THEN PFail
            ELSE LET more == Append(acc, <<k[2][2], v[2]>>) IN
                 CASE At(s, v[3]) = "," -> ParseMembers(s, v[3] + 1, more)
                   [] At(s, v[3]) = "}" -> <<TRUE, JsObj(more), v[3] + 1>>
                   [] OTHER -> PFail
ParseValue(s, i) ==
  CASE At(s, i) = "n" ->
         IF <<At(s, i + 1), At(s, i + 2), At(s, i + 3)>> = <<"u","l","l">>
         THEN <<TRUE, JsNull, i + 4>> ELSE PFail
    [] At(s, i) = "0" -> <<TRUE, JsNum(0), i + 1>>
    [] IsIn(At(s, i), DigitChars) /\ At(s, i) # "0" -> ParseDigits(s, i, 0)
    [] At(s, i) = Quote -> ParseChars(s, i + 1, <<>>)
    [] At(s, i) = "{" ->
         IF At(s, i + 1) = "}" THEN <<TRUE, JsObj(<<>>), i + 2>>
         ELSE ParseMembers(s, i + 1, <<>>)
    [] OTHER -> PFail

\* JSON.parse: the whole text must be one value
JSONparse(s) ==
  LET r == ParseValue(s, 1) IN
  IF r[1] /\ r[3] = Len(s) + 1 THEN r[2] ELSE SyntaxError

(* ------------------------------ policy -------------------------------- *)
\* the EX option of each cli.set, in seconds
WeatherEX == 60 * 60
ForecastEX == 60 * 60
NewsEX == 60 * 60 * 6
StockEX == 3 * 60 * 60

countries == << <<"u","s">>, <<"s","g">>, <<"i","n">> >>
categories ==
  << <<"g","e","n","e","r","a","l">>,
     <<"n","a","t","i","o","n">>,
     <<"b","u","s","i","n","e","s","s">>,
     <<"t","e","c","h","n","o","l","o","g","y">>,
     <<"e","n","t","e","r","t","a","i","n","m","e","n","t">> >>
SYMBOLS ==
  << <<"A","A","P","L">>, <<"T","S","L","A">>, <<"M","S","F","T">>,
     <<"G","O","O","G","L">>, <<"N","V","D","A">> >>

\* route parameters the modelled clients send
ReqCities == { <<"s","g">>, <<"S","G">> }
ReqCountries == { <<"u","s">>, <<"U","S">> }
ReqCategories == { categories[1] }

KeyOf_WeatherForAll(ep, params) ==
  IF ep = "news" THEN redisKey(params[1], params[2]) ELSE rediswea(params[1])
KeyOf(ep, params) ==
  CASE ep = "weather" -> rediswea(params[1])
    [] ep = "forecast" -> redisForecastKey(params[1])
    [] ep = "news" -> redisKey(params[1], params[2])
EXOf_AllHour(ep) == 60 * 60
EXOf(ep) ==
  CASE ep = "weather" -> WeatherEX
    [] ep = "forecast" -> ForecastEX
    [] ep = "news" -> NewsEX

(* ------------------------------ state --------------------------------- *)
VARIABLES
  store,    \* Redis: key -> [val, at, ex, by]; an entry is live while now < at + ex
  now,      \* the clock, in seconds
  ver,      \* version of the providers' data
  events,   \* events of the environment so far
  req,      \* the single-key request slots
  calls,    \* invocations of /api/stocks so far
  stk,      \* the GET /api/stocks invocation
  sw,       \* the GET /backup invocation
  scn       \* which requests arrive in this run

envVars == <<now, ver>>
vars == <<store, now, ver, events, req, calls, stk, sw, scn>>

\* the reply of cli.get: null (found = FALSE) or the stored string
NullReply == [found |-> FALSE, val |-> <<>>, by |-> <<"none">>]
Live(k) == k \in DOMAIN store /\ now < store[k].at + store[k].ex
cliGet_NoExpiry(k) ==
  IF k \in DOMAIN store THEN [found |-> TRUE, val |-> store[k].val, by |-> store[k].by]
  ELSE NullReply
cliGet(k) ==
  IF Live(k) THEN [found |-> TRUE, val |-> store[k].val, by |-> store[k].by]
  ELSE NullReply
\* the store after cli.set(k, v, {EX: ex}) by writer `by`
cliSet_NX(k, v, ex, by) ==
  [kk \in DOMAIN store \cup {k} |->
     IF kk = k /\ ~Live(k) THEN [val |-> v, at |-> now, ex |-> ex, by |-> by] ELSE store[kk]]
cliSet_KeepTTL(k, v, ex, by) ==
  [kk \in DOMAIN store \cup {k} |->
     IF kk # k THEN store[kk]
     ELSE IF Live(k) THEN [val |-> v, at |-> store[k].at, ex |-> store[k].ex, by |-> by]
     ELSE [val |-> v, at |-> now, ex |-> ex, by |-> by]]
cliSet(k, v, ex, by) ==
  [kk \in DOMAIN store \cup {k} |->
     IF kk = k THEN [val |-> v, at |-> now, ex |-> ex, by |-> by] ELSE store[kk]]
\* JavaScript truthiness of the reply: null and "" are falsy
Truthy_Inverted(c) == ~(c.found /\ c.val # <<>>)
Truthy_NullIsMiss(c) == c.found /\ c.val # <<>> /\ c.val # <<"n","u","l","l">>
Truthy(c) == c.found /\ c.val # <<>>

(* ------------------------------ upstream ------------------------------ *)
\* the body a provider returns for a request, at version v of its data
UpstreamData(ep, params, v) ==
  CASE ep = "weather" ->
         JsObj(<< <<<<"d">>, JsStr(<<"w">>)>>, <<<<"q">>, JsStr(params[1])>>,
                  <<<<"v">>, JsNum(v)>> >>)
    [] ep = "forecast" ->
         JsObj(<< <<<<"d">>, JsStr(<<"f">>)>>, <<<<"q">>, JsStr(params[1])>>,
                  <<<<"v">>, JsNum(v)>> >>)
    [] ep = "news" ->
         JsObj(<< <<<<"d">>, JsStr(<<"n">>)>>, <<<<"c">>, JsStr(params[1])>>,
                  <<<<"g">>, JsStr(params[2])>>, <<<<"v">>, JsNum(v)>> >>)
\* how a fetch can fail: a non-success status (response.ok is false), or a
\* rejection of fetch or of response.json() (a transport error)
FetchFailures == {"status", "transport"}

(* ------------------------------ responses ----------------------------- *)
NoRes == [status |-> 0, body |-> <<"none">>]
Json(status, v) == [status |-> status, body |-> v]
ErrorBody_Text(msg) == <<"text", msg>>
ErrorBody(msg) == JsObj(<< <<<<"e","r","r","o","r">>, JsStr(msg)>> >>)
\* err.message of what fetchAndStore* throws
FailedMsg(ep, params) ==
  CASE ep = "weather" -> <<"Failed to fetch weather for ">> \o params[1]
    [] ep = "forecast" -> <<"Failed to fetch forecast for ">> \o params[1]
    [] ep = "news" -> <<"Failed for ">> \o params[1] \o <<"-">> \o params[2]
FetchErrMsg(ep, params, why) ==
  IF why = "status" THEN FailedMsg(ep, params) ELSE <<"FetchError: ", why>>
StoreErrMsg == <<"Redis error">>
ParseErrMsg == <<"Unexpected token in JSON">>

IdleReq ==
  [pc |-> "idle", ep |-> "none", params |-> <<>>, key |-> <<>>,
   cached |-> NullReply, readAt |-> 0, out |-> "none", data |-> <<"undefined">>,
   res |-> NoRes, url |-> <<>>,
   nget |-> 0, nfetch |-> 0, nset |-> 0]

IdleTask ==
  [pc |-> "idle", cached |-> NullReply, price |-> <<"undefined">>, nfetch |-> 0, nset |-> 0]
IdleStocks == [pc |-> "idle", task |-> [i \in 1..Len(SYMBOLS) |-> IdleTask], res |-> NoRes]
IdleSweep ==
  [pc |-> "idle", ci |-> 0, gi |-> 0, data |-> <<"undefined">>, tried |-> <<>>,
   outs |-> <<>>, log |-> <<>>, ret |-> <<"pending">>, res |-> NoRes]

Start ==
  /\ store = << >>
  /\ now = 0
  /\ ver = 0
  /\ events = 0
  /\ req = [p \in Procs |-> IdleReq]
  /\ calls = 0
  /\ stk = IdleStocks
  /\ sw = IdleSweep

Init == scn = "requests" /\ Start

(* ------------------------------ handlers ------------------------------ *)
\* the synchronous head of a handler: take the route parameters, derive the
\* key, issue cli.get
Begin(p, ep, params) ==
  /\ req[p].pc = "idle"
  /\ \A q \in Procs : q < p => req[q].pc # "idle"
  /\ req' = [req EXCEPT ![p] = [@ EXCEPT !.pc = "get", !.ep = ep, !.params = params,
                                         !.key = KeyOf(ep, params), !.nget = 1]]
  /\ UNCHANGED <<store, envVars, events, calls, stk, sw, scn>>

WeatherStart(p) == \E city \in ReqCities : Begin(p, "weather", <<city>>)
ForecastStart(p) == \E city \in ReqCities : Begin(p, "forecast", <<city>>)
NewsStart(p) ==
  \E country \in ReqCountries, category \in ReqCategories :
    Begin(p, "news", <<country, category>>)

\* what the handler does with the reply of cli.get
OnCached_Refetch(r, c) ==
  [r EXCEPT !.pc = "fetch", !.cached = c, !.readAt = now, !.nfetch = @ + 1]
OnCached_CorruptAsMiss(r, c) ==
  IF Truthy(c) /\ JSONparse(c.val) # SyntaxError
  THEN [r EXCEPT !.pc = "done", !.cached = c, !.readAt = now, !.res = Json(200, JSONparse(c.val))]
  ELSE [r EXCEPT !.pc = "fetch", !.cached = c, !.readAt = now, !.nfetch = @ + 1]
OnCached(r, c) ==
  IF Truthy(c)
  THEN LET v == JSONparse(c.val) IN
       [r EXCEPT !.pc = "done", !.cached = c, !.readAt = now,
                 !.res = IF v = SyntaxError THEN Json(500, ErrorBody(ParseErrMsg))
                         ELSE Json(200, v)]
  ELSE [r EXCEPT !.pc = "fetch", !.cached = c, !.readAt = now, !.nfetch = @ + 1]

\* cli.get rejects: the catch of the handler answers 500
OnGetFailed(r) ==
  [r EXCEPT !.pc = "done", !.readAt = now, !.res = Json(500, ErrorBody(StoreErrMsg))]

\* cli.get returns (or rejects) and the handler runs up to its next await
HandlerGet(p) ==
  /\ req[p].pc = "get"
  /\ \/ /\ req' = [req EXCEPT ![p] = OnCached(@, cliGet(@.key))]
        /\ UNCHANGED events
     \/ /\ events < MaxEvents
        /\ events' = events + 1
        /\ req' = [req EXCEPT ![p] = OnGetFailed(@)]
  /\ UNCHANGED <<store, envVars, calls, stk, sw, scn>>

\* fetchAndStore* throws and the catch of the handler answers 500
OnFetchFailed_NegCache(r, why) == [r EXCEPT !.pc = "set", !.out = why, !.data = JsNull]
OnFetchFailed_Retry(r, why) == [r EXCEPT !.pc = "fetch", !.out = why, !.nfetch = @ + 1]
OnFetchFailed(r, why) ==
  [r EXCEPT !.pc = "done", !.out = why,
            !.res = Json(500, ErrorBody(FetchErrMsg(r.ep, r.params, why)))]

\* response.json() returns the body: fetchAndStore* issues cli.set and awaits it
OnFetched_RespondFirst(r, data) ==
  [r EXCEPT !.pc = "set", !.out = "ok", !.data = data, !.res = Json(200, data)]
OnFetched(r, data) == [r EXCEPT !.pc = "set", !.out = "ok", !.data = data]

\* fetch returns (or rejects): on success fetchAndStore* issues cli.set, on
\* failure it throws
HandlerFetch(p) ==
  /\ req[p].pc = "fetch"
  /\ \/ /\ req' = [req EXCEPT ![p] = OnFetched(@, UpstreamData(req[p].ep, req[p].params, ver))]
        /\ UNCHANGED events
     \/ /\ events < MaxEvents
        /\ events' = events + 1
        /\ \E why \in FetchFailures : req' = [req EXCEPT ![p] = OnFetchFailed(@, why)]
  /\ UNCHANGED <<store, envVars, calls, stk, sw, scn>>

\* cli.set rejects: fetchAndStore* throws and the catch of the handler answers 500
OnSetFailed_FailOpen(r) == [r EXCEPT !.pc = "done", !.res = Json(200, r.data)]
OnSetFailed(r) == [r EXCEPT !.pc = "done", !.res = Json(500, ErrorBody(StoreErrMsg))]

\* cli.set returns (or rejects): the entry is written with the domain's EX and
\* the handler answers with the fetched data
HandlerSet(p) ==
  /\ req[p].pc = "set"
  /\ \/ /\ store' = cliSet(KeyOf(req[p].ep, req[p].params), JSONstringify(req[p].data),
                           EXOf(req[p].ep), <<"req", p>>)
        /\ req' = [req EXCEPT ![p] = [@ EXCEPT !.pc = "done", !.nset = @ + 1,
                                               !.res = Json(200, req[p].data)]]
        /\ UNCHANGED events
     \/ /\ events < MaxEvents
        /\ events' = events + 1
        /\ req' = [req EXCEPT ![p] = OnSetFailed(@)]
        /\ UNCHANGED store
  /\ UNCHANGED <<envVars, calls, stk, sw, scn>>

(* ------------------------------ GET /api/stocks ----------------------- *)
\* the closing price the provider reports for SYMBOLS[i] at version v
StockClose(i, v) == 100 + 10 * i + v
StockSeries(i, v) == << [close |-> StockClose(i, v)] >>
\* response.data[0]?.close ?? null
LastPrice(data) ==
  IF data # <<>> /\ "close" \in DOMAIN data[1] THEN JsNum(data[1].close) ELSE JsNull
\* how axios.get can reject: a non-2xx status, a transport error
AxiosFailures == {"status", "transport"}
StocksErrMsg == <<"ERROR: Failed to fetch stocks">>
Settled(t) == t.pc \in {"idle", "ok", "fail"}

\* task i of the Promise.all ends as t; the first rejection, or the last
\* fulfilment, settles the Promise.all and the handler answers
Settle_Partial(s, i, t) ==
  LET s2 == [s EXCEPT !.task[i] = t] IN
  IF s.pc = "run" /\ \A j \in DOMAIN s2.task : Settled(s2.task[j])
  THEN [s2 EXCEPT !.pc = "done",
                  !.res = Json(200, JsObj([j \in DOMAIN s2.task |->
                                             <<SYMBOLS[j], IF s2.task[j].pc = "ok"
                                                           THEN s2.task[j].price ELSE JsNull>>]))]
  ELSE s2
Settle_Cancel(s, i, t) ==
  LET s2 == [s EXCEPT !.task[i] = t] IN
  IF s.pc = "run" /\ t.pc = "fail"
  THEN [s2 EXCEPT !.pc = "done", !.res = Json(500, ErrorBody(StocksErrMsg)),
                  !.task = [j \in DOMAIN s2.task |->
                              IF Settled(s2.task[j]) THEN s2.task[j]
                              ELSE [s2.task[j] EXCEPT !.pc = "fail"]]]
  ELSE IF s.pc = "run" /\ \A j \in DOMAIN s2.task : s2.task[j].pc = "ok"
  THEN [s2 EXCEPT !.pc = "done",
                  !.res = Json(200, JsObj([j \in DOMAIN s2.task |->
                                             <<SYMBOLS[j], s2.task[j].price>>]))]
  ELSE s2
Settle(s, i, t) ==
  LET s2 == [s EXCEPT !.task[i] = t] IN
  IF s.pc = "run" /\ t.pc = "fail"
  THEN [s2 EXCEPT !.pc = "done", !.res = Json(500, ErrorBody(StocksErrMsg))]
  ELSE IF s.pc = "run" /\ \A j \in DOMAIN s2.task : s2.task[j].pc = "ok"
  THEN [s2 EXCEPT !.pc = "done",
                  !.res = Json(200, JsObj([j \in DOMAIN s2.task |->
                                             <<SYMBOLS[j], s2.task[j].price>>]))]
  ELSE s2

\* the handler maps the symbols: every callback issues its cli.get
StocksStart ==
  /\ calls < MaxCalls
  /\ stk.pc \in {"idle", "done"}
  /\ \A i \in DOMAIN stk.task : Settled(stk.task[i])
  /\ calls' = calls + 1
  /\ stk' = [pc |-> "run", res |-> NoRes,
             task |-> [i \in 1..Len(SYMBOLS) |-> [IdleTask EXCEPT !.pc = "get"]]]
  /\ UNCHANGED <<store, envVars, events, req, sw, scn>>

StockOnCached_CorruptAsMiss(t, c) ==
  IF Truthy(c) /\ JSONparse(c.val) # SyntaxError
  THEN [t EXCEPT !.pc = "ok", !.cached = c, !.price = JSONparse(c.val)]
  ELSE [t EXCEPT !.pc = "fetch", !.cached = c, !.nfetch = @ + 1]
StockOnCached(t, c) ==
  IF Truthy(c)
  THEN LET v == JSONparse(c.val) IN
       IF v = SyntaxError THEN [t EXCEPT !.pc = "fail", !.cached = c]
       ELSE [t EXCEPT !.pc = "ok", !.cached = c, !.price = v]
  ELSE [t EXCEPT !.pc = "fetch", !.cached = c, !.nfetch = @ + 1]

StockGet(i) ==
  /\ stk.task[i].pc = "get"
  /\ \/ /\ stk' = Settle(stk, i, StockOnCached(stk.task[i], cliGet(redisStockKey(SYMBOLS[i]))))
        /\ UNCHANGED events
     \/ /\ events < MaxEvents
        /\ events' = events + 1
        /\ stk' = Settle(stk, i, [stk.task[i] EXCEPT !.pc = "fail"])
  /\ UNCHANGED <<store, envVars, req, calls, sw, scn>>

\* axios.get returns: fetchAndStoreStock takes the last close and issues
\* cli.set; the provider may have no data for the symbol
StockFetch(i) ==
  /\ stk.task[i].pc = "fetch"
  /\ \/ /\ stk' = [stk EXCEPT !.task[i] =
                     [@ EXCEPT !.pc = "set", !.price = LastPrice(StockSeries(i, ver))]]
        /\ UNCHANGED events
     \/ /\ events < MaxEvents
        /\ events' = events + 1
        /\ \/ stk' = [stk EXCEPT !.task[i] = [@ EXCEPT !.pc = "set", !.price = LastPrice(<<>>)]]
           \/ \E why \in AxiosFailures :
                stk' = Settle(stk, i, [stk.task[i] EXCEPT !.pc = "fail"])
  /\ UNCHANGED <<store, envVars, req, calls, sw, scn>>

StockSet(i) ==
  /\ stk.task[i].pc = "set"
  /\ \/ /\ store' = cliSet(redisStockKey(SYMBOLS[i]), JSONstringify(stk.task[i].price),
                           StockEX, <<"stock", i>>)
        /\ stk' = Settle(stk, i, [stk.task[i] EXCEPT !.pc = "ok", !.nset = @ + 1])
        /\ UNCHANGED events
     \/ /\ events < MaxEvents
        /\ events' = events + 1
        /\ stk' = Settle(stk, i, [stk.task[i] EXCEPT !.pc = "fail"])
        /\ UNCHANGED store
  /\ UNCHANGED <<envVars, req, calls, sw, scn>>

(* ------------------------------ GET /backup --------------------------- *)
BackupText == <<"text", <<"All country-category data backed up!">>>>
StoredLine(country, category) == <<"Stored", country, category>>
FailedLine_NoName(country, category, msg) == <<"Failed", <<>>, <<>>, msg>>
FailedLine(country, category, msg) == <<"Failed", country, category, msg>>
SweepParams(s) == <<countries[s.ci], categories[s.gi]>>

\* the loops of preloadAllNews: log the outcome of this combination, then
\* issue the fetch of the next one, or return after the last one, and the
\* /backup handler answers
SweepAdvance_Abort(s, line) ==
  LET logged == [s EXCEPT !.log = Append(@, line), !.data = <<"undefined">>] IN
  IF line[1] = "Failed" \/ (s.gi = Len(categories) /\ s.ci = Len(countries))
  THEN [logged EXCEPT !.pc = "done", !.ret = <<"undefined">>,
                      !.res = [status |-> IF line[1] = "Failed" THEN 500 ELSE 200,
                               body |-> BackupText]]
  ELSE IF s.gi < Len(categories)
  THEN [logged EXCEPT !.pc = "fetch", !.gi = s.gi + 1,
                      !.tried = Append(@, <<s.ci, s.gi + 1>>)]
  ELSE [logged EXCEPT !.pc = "fetch", !.ci = s.ci + 1, !.gi = 1,
                      !.tried = Append(@, <<s.ci + 1, 1>>)]
SweepAdvance_CategoryOuter(s, line) ==
  LET logged == [s EXCEPT !.log = Append(@, line), !.data = <<"undefined">>] IN
  IF s.ci < Len(countries)
  THEN [logged EXCEPT !.pc = "fetch", !.ci = s.ci + 1,
                      !.tried = Append(@, <<s.ci + 1, s.gi>>)]
  ELSE IF s.gi < Len(categories)
  THEN [logged EXCEPT !.pc = "fetch", !.ci = 1, !.gi = s.gi + 1,
                      !.tried = Append(@, <<1, s.gi + 1>>)]
  ELSE [logged EXCEPT !.pc = "done", !.ret = <<"undefined">>,
                      !.res = [status |-> 200, body |-> BackupText]]
SweepAdvance(s, line) ==
  LET logged == [s EXCEPT !.log = Append(@, line), !.data = <<"undefined">>] IN
  IF s.gi < Len(categories)
  THEN [logged EXCEPT !.pc = "fetch", !.gi = s.gi + 1,
                      !.tried = Append(@, <<s.ci, s.gi + 1>>)]
  ELSE IF s.ci < Len(countries)
  THEN [logged EXCEPT !.pc = "fetch", !.ci = s.ci + 1, !.gi = 1,
                      !.tried = Append(@, <<s.ci + 1, 1>>)]
  ELSE [logged EXCEPT !.pc = "done", !.ret = <<"undefined">>,
                      !.res = [status |-> 200, body |-> BackupText]]

BackupStart_NoAwait ==
  /\ sw.pc = "idle"
  /\ sw' = [IdleSweep EXCEPT !.pc = "fetch", !.ci = 1, !.gi = 1, !.tried = << <<1, 1>> >>,
                             !.res = [status |-> 200, body |-> BackupText]]
  /\ UNCHANGED <<store, envVars, events, req, calls, stk, scn>>
BackupStart ==
  /\ sw.pc = "idle"
  /\ sw' = [IdleSweep EXCEPT !.pc = "fetch", !.ci = 1, !.gi = 1, !.tried = << <<1, 1>> >>]
  /\ UNCHANGED <<store, envVars, events, req, calls, stk, scn>>

\* the fetch of fetchAndStoreNews returns inside the sweep
SweepFetch ==
  /\ sw.pc = "fetch"
  /\ \/ /\ sw' = [sw EXCEPT !.pc = "set", !.data = UpstreamData("news", SweepParams(sw), ver)]
        /\ UNCHANGED events
     \/ /\ events < MaxEvents
        /\ events' = events + 1
        /\ \E why \in FetchFailures :
             sw' = SweepAdvance([sw EXCEPT !.outs = Append(@, why)],
                                FailedLine(countries[sw.ci], categories[sw.gi],
                                           FetchErrMsg("news", SweepParams(sw), why)))
  /\ UNCHANGED <<store, envVars, req, calls, stk, scn>>

\* the cli.set of fetchAndStoreNews returns inside the sweep
SweepSet ==
  /\ sw.pc = "set"
  /\ \/ /\ store' = cliSet(KeyOf("news", SweepParams(sw)), JSONstringify(sw.data),
                           EXOf("news"), <<"sweep">>)
        /\ sw' = SweepAdvance([sw EXCEPT !.outs = Append(@, "ok")],
                               StoredLine(countries[sw.ci], categories[sw.gi]))
        /\ UNCHANGED events
     \/ /\ events < MaxEvents
        /\ events' = events + 1
        /\ sw' = SweepAdvance([sw EXCEPT !.outs = Append(@, "store")],
                               FailedLine(countries[sw.ci], categories[sw.gi], StoreErrMsg))
        /\ UNCHANGED store
  /\ UNCHANGED <<envVars, req, calls, stk, scn>>

(* ------------------------------ environment --------------------------- *)
TickSteps == {WeatherEX \div 2, NewsEX}
Tick ==
  /\ events < MaxEvents
  /\ events' = events + 1
  /\ \E d \in TickSteps : now' = now + d
  /\ UNCHANGED <<store, ver, req, calls, stk, sw, scn>>

UpstreamChange ==
  /\ events < MaxEvents
  /\ events' = events + 1
  /\ ver' = ver + 1
  /\ UNCHANGED <<store, now, req, calls, stk, sw, scn>>

\* another client of the same Redis overwrites the value of an entry: with
\* the empty string, or with text that is not JSON
ExtValues == { <<>>, <<"{">> }
ExternalSet ==
  /\ events < MaxEvents
  /\ events' = events + 1
  /\ \E k \in DOMAIN store, v \in ExtValues :
       store' = [store EXCEPT ![k] = [@ EXCEPT !.val = v, !.by = <<"ext">>]]
  /\ UNCHANGED <<now, ver, req, calls, stk, sw, scn>>

Next ==
  \/ \E p \in Procs : WeatherStart(p)
  \/ \E p \in Procs : ForecastStart(p)
  \/ \E p \in Procs : NewsStart(p)
  \/ \E p \in Procs : HandlerGet(p)
  \/ \E p \in Procs : HandlerFetch(p)
  \/ \E p \in Procs : HandlerSet(p)
  \/ Tick
  \/ UpstreamChange
  \/ ExternalSet

Spec == Init /\ [][Next]_vars

\* no invocation of /api/stocks is running and the sweep has not started
Quiet ==
  /\ stk.pc \in {"idle", "done"}
  /\ \A i \in DOMAIN stk.task : Settled(stk.task[i])
  /\ sw.pc = "idle"
QuietTick == Quiet /\ Tick
QuietUpstreamChange == Quiet /\ UpstreamChange
QuietExternalSet == Quiet /\ ExternalSet
\* no single-key request is running
NoRequest == \A p \in Procs : req[p].pc \in {"idle", "done"}
LoneNewsStart == sw.pc \in {"idle", "done"} /\ NewsStart(1)
LoneBackupStart == NoRequest /\ BackupStart

\* GET /api/stocks, called up to MaxCalls times in sequence; the clock, the
\* providers' data and the other client move between the calls
NextStocks ==
  \/ StocksStart
  \/ \E i \in 1..Len(SYMBOLS) : StockGet(i)
  \/ \E i \in 1..Len(SYMBOLS) : StockFetch(i)
  \/ \E i \in 1..Len(SYMBOLS) : StockSet(i)
  \/ QuietTick
  \/ QuietUpstreamChange
  \/ QuietExternalSet

InitStocks == scn = "stocks" /\ Start
SpecStocks == InitStocks /\ [][NextStocks]_vars

\* one GET /backup and one news request, one after the other in either
\* order; the clock, the providers' data and the other client move before
\* the sweep
NextSweep ==
  \/ LoneBackupStart
  \/ SweepFetch
  \/ SweepSet
  \/ LoneNewsStart
  \/ HandlerGet(1)
  \/ HandlerFetch(1)
  \/ HandlerSet(1)
  \/ QuietTick
  \/ QuietUpstreamChange
  \/ QuietExternalSet

InitSweep == scn = "sweep" /\ Start
SpecSweep == InitSweep /\ [][NextSweep]_vars

\* the news provider refuses a fetch of the sweep (response.ok is false)
SweepFetchRefused ==
  /\ sw.pc = "fetch"
  /\ sw' = SweepAdvance([sw EXCEPT !.outs = Append(@, "status")],
                         FailedLine(countries[sw.ci], categories[sw.gi],
                                    FetchErrMsg("news", SweepParams(sw), "status")))
  /\ UNCHANGED <<store, envVars, events, req, calls, stk, scn>>
SweepFetchOk == SweepFetch /\ UNCHANGED events
SweepSetOk == SweepSet /\ UNCHANGED events

\* one GET /backup while the news provider refuses any number of the fetches
NextOutage ==
  \/ BackupStart
  \/ SweepFetchOk
  \/ SweepSetOk
  \/ SweepFetchRefused

InitOutage == scn = "outage" /\ Start
SpecOutage == InitOutage /\ [][NextOutage]_vars

(* ------------------------------ GET /api/curnews ---------------------- *)
\* req.query of the modelled clients; <<"undefined">> is an absent parameter
ReqTerms == { <<"undefined">>, <<"sg">> }
ReqApiKeys == { <<"undefined">>, <<>>, <<"k">> }
CurnewsTerm(term) == IF term = <<"undefined">> THEN <<"Singapore">> ELSE term
MissingKeyMsg == <<"Missing API key">>
CurnewsErrMsg == <<"Failed to fetch news">>
\* what newsapi.org answers: the articles at version v, or, with a status
\* that is not a success, its own error object
CurnewsBodies(term, v) ==
  { JsObj(<< <<<<"s","t","a","t","u","s">>, JsStr(<<"o","k">>)>>,
             <<<<"q">>, JsStr(term)>>, <<<<"v">>, JsNum(v)>> >>),
    JsObj(<< <<<<"s","t","a","t","u","s">>, JsStr(<<"e","r","r","o","r">>)>> >>) }

\* the address /api/curnews fetches; GNewsKey stands for the server's own key
GNewsKey == <<"GNEWS_API_KEY">>
CurnewsUrl_ServerKey(term, apikey) ==
  <<"https://newsapi.org/v2/everything?q=">> \o term \o <<"&apiKey=">> \o GNewsKey
CurnewsUrl(term, apikey) ==
  <<"https://newsapi.org/v2/everything?q=">> \o term \o <<"&apiKey=">> \o apikey

\* the handler up to its first await: 400 without an apikey, else the fetch
CurnewsStart(p) ==
  /\ req[p].pc = "idle"
  /\ \A q \in Procs : q < p => req[q].pc # "idle"
  /\ \E term \in ReqTerms, apikey \in ReqApiKeys :
       req' = [req EXCEPT ![p] =
                 IF apikey \in { <<"undefined">>, <<>> }
                 THEN [@ EXCEPT !.pc = "done", !.ep = "curnews", !.params = <<term, apikey>>,
                                !.res = Json(400, ErrorBody(MissingKeyMsg))]
                 ELSE [@ EXCEPT !.pc = "curfetch", !.ep = "curnews",
                                !.params = <<term, apikey>>, !.nfetch = 1,
                                !.url = CurnewsUrl(CurnewsTerm(term), apikey)]]
  /\ UNCHANGED <<store, envVars, events, calls, stk, sw, scn>>

\* fetch and response.json() return: the body is passed on whatever the
\* provider's status; a rejection of either goes to the catch
CurnewsFetch(p) ==
  /\ req[p].pc = "curfetch"
  /\ \/ /\ \E data \in CurnewsBodies(CurnewsTerm(req[p].params[1]), ver) :
             req' = [req EXCEPT ![p] = [@ EXCEPT !.pc = "done", !.out = "ok", !.data = data,
                                                 !.res = Json(200, data)]]
        /\ UNCHANGED events
     \/ /\ events < MaxEvents
        /\ events' = events + 1
        /\ req' = [req EXCEPT ![p] = [@ EXCEPT !.pc = "done", !.out = "transport",
                                               !.res = Json(500, ErrorBody(CurnewsErrMsg))]]
  /\ UNCHANGED <<store, envVars, calls, stk, sw, scn>>

NextCurnews ==
  \/ \E p \in Procs : CurnewsStart(p)
  \/ \E p \in Procs : CurnewsFetch(p)
  \/ UpstreamChange

\* /api/curnews next to weather requests, which fill the store
NextCurnewsWeather ==
  \/ NextCurnews
  \/ \E p \in Procs : WeatherStart(p)
  \/ \E p \in Procs : HandlerGet(p)
  \/ \E p \in Procs : HandlerFetch(p)
  \/ \E p \in Procs : HandlerSet(p)
InitCurnews == scn = "curnews" /\ Start
SpecCurnews == InitCurnews /\ [][NextCurnewsWeather]_vars

\* any one of the runs of requests, stocks, sweep and curnews above
Scenarios == {"requests", "stocks", "sweep", "curnews"}
InitAny == scn \in Scenarios /\ Start
NextAny ==
  \/ scn = "requests" /\ Next
  \/ scn = "stocks" /\ NextStocks
  \/ scn = "sweep" /\ NextSweep
  \/ scn = "curnews" /\ NextCurnews
SpecAny == InitAny /\ [][NextAny]_vars

(* ------------------------------ properties ---------------------------- *)
\* C1: a handler whose cli.get returned a non-empty string answers with the
\* parsed stored value (when it parses), and in that invocation fetches
\* nothing and writes nothing; the same holds for each symbol of /api/stocks
HitShortCircuit ==
  /\ \A p \in Procs :
       LET r == req[p] IN
       (r.cached.found /\ r.cached.val # <<>>) =>
         /\ r.pc = "done" /\ r.nfetch = 0 /\ r.nset = 0
         /\ \A k \in DOMAIN store : store[k].by # <<"req", p>>
         /\ JSONparse(r.cached.val) # SyntaxError =>
              r.res = Json(200, JSONparse(r.cached.val))
  /\ \A i \in DOMAIN stk.task :
       LET t == stk.task[i] IN
       (t.cached.found /\ t.cached.val # <<>>) =>
         /\ t.pc \in {"ok", "fail"} /\ t.nfetch = 0 /\ t.nset = 0
         /\ JSONparse(t.cached.val) # SyntaxError =>
              /\ t.pc = "ok" /\ t.price = JSONparse(t.cached.val)
              /\ stk.res.status = 200 => stk.res.body[2][i] = <<SYMBOLS[i], t.price>>
\* a second /api/stocks call answered from the store alone
HitShortCircuitSeen ==
  /\ stk.pc = "done" /\ stk.res.status = 200
  /\ \A i \in DOMAIN stk.task :
       stk.task[i].cached.found /\ stk.task[i].pc = "ok" /\ stk.task[i].nfetch = 0

\* C2: an invocation that missed and whose fetch failed (status or transport)
\* answers with an error and writes nothing; unless another invocation wrote
\* its key, the key is still absent from the store
FetchFailureNoWrite ==
  \A p \in Procs :
    req[p].out \in FetchFailures =>
      /\ req[p].pc = "done" /\ req[p].res.status = 500 /\ req[p].nset = 0
      /\ \A k \in DOMAIN store : store[k].by # <<"req", p>>
      /\ (\A q \in Procs \ {p} : req[q].nset = 0 \/ req[q].key # req[p].key) =>
           /\ req[p].key \notin DOMAIN store
           /\ cliGet(req[p].key) = NullReply
\* a request failed upstream and a later request for the same key missed too
FetchFailureNoWriteSeen ==
  \E p, q \in Procs :
    /\ p # q /\ req[p].out \in FetchFailures /\ req[q].key = req[p].key
    /\ req[q].pc = "fetch" /\ req[q].cached = NullReply /\ req[q].readAt >= req[p].readAt
    /\ req[p].pc = "done"

\* C3: a resolution that reads the entry an earlier resolution of the same
\* key wrote is a hit: both return the same payload and the fetcher ran once
\* in the two of them
Idempotence ==
  \A p, q \in Procs :
    (req[q].cached.found /\ req[q].cached.by = <<"req", p>>) =>
      /\ p # q /\ req[p].key = req[q].key
      /\ req[p].pc = "done" /\ req[q].pc = "done"
      /\ req[p].res.status = 200 /\ req[q].res = req[p].res
      /\ req[p].nfetch + req[q].nfetch = 1
\* two forecast requests in sequence, the second served from the first's entry
IdempotenceSeen ==
  \E p, q \in Procs :
    /\ req[p].ep = "forecast" /\ req[q].ep = "forecast"
    /\ req[q].cached.found /\ req[q].cached.by = <<"req", p>>
    /\ req[q].pc = "done" /\ req[q].res.status = 200

\* C4: two requests to the same endpoint whose parameters differ only in
\* letter case derive the same cache key
SameParams(a, b) ==
  Len(a) = Len(b) /\ \A j \in 1..Len(a) : toLowerCase(a[j]) = toLowerCase(b[j])
CaseInsensitiveKeys ==
  \A p, q \in Procs :
    (req[p].pc # "idle" /\ req[q].pc # "idle" /\ req[p].ep = req[q].ep
       /\ SameParams(req[p].params, req[q].params)) => req[p].key = req[q].key

\* the combinations of the sweep, in the order of its loops
AllCombos ==
  [j \in 1..(Len(countries) * Len(categories)) |->
     <<((j - 1) \div Len(categories)) + 1, ((j - 1) % Len(categories)) + 1>>]
ComboParams(j) == <<countries[AllCombos[j][1]], categories[AllCombos[j][2]]>>

\* C5: one run of the sweep attempts the 15 combinations once each, in
\* order, whatever the outcome of the others: a failed fetch or store write
\* ends neither the sweep nor the /backup request, and the combinations
\* after it are still fetched and stored
SweepTolerance ==
  /\ \A j \in 1..Len(sw.tried) : sw.tried[j] = AllCombos[j]
  /\ sw.pc \in {"fetch", "set"} =>
       Len(sw.tried) = Len(sw.outs) + 1 /\ sw.res = NoRes
  /\ sw.pc = "done" =>
       /\ sw.tried = AllCombos
       /\ Len(sw.outs) = Len(AllCombos)
       /\ sw.res.status = 200
  /\ \A j \in 1..Len(sw.outs) :
       sw.outs[j] = "ok" => KeyOf("news", ComboParams(j)) \in DOMAIN store
\* a sweep that ended after its first fetch and its second store write failed
SweepToleranceSeen ==
  /\ sw.pc = "done"
  /\ sw.outs[1] \in FetchFailures /\ sw.outs[2] = "store"
  /\ \A j \in 3..Len(AllCombos) :
       sw.outs[j] = "ok" /\ store[KeyOf("news", ComboParams(j))].by = <<"sweep">>

HasPrefix(k, pre) == Len(k) >= Len(pre) /\ SubSeq(k, 1, Len(pre)) = pre

\* C7: every entry under stock:<SYMBOL> is written with a time-to-live of
\* 2 hours (7200 seconds)
StockTTLTwoHours ==
  \A k \in DOMAIN store :
    HasPrefix(k, <<"s","t","o","c","k",":">>) => store[k].ex = 7200

\* C8: every entry under weather:<city> is written with a time-to-live of
\* 3600 seconds, and every entry under gnews:<country>:<category>, written by
\* the news handler or by the sweep, with one of 21600 seconds
WeatherNewsTTL ==
  \A k \in DOMAIN store :
    /\ HasPrefix(k, <<"w","e","a","t","h","e","r",":">>) => store[k].ex = 3600
    /\ HasPrefix(k, <<"g","n","e","w","s",":">>) => store[k].ex = 21600
\* a weather request and a news request have both written their entries
WeatherNewsTTLSeen ==
  \E p, q \in Procs :
    /\ req[p].ep = "weather" /\ req[p].nset = 1
    /\ req[p].key \in DOMAIN store /\ store[req[p].key].by = <<"req", p>>
    /\ req[q].ep = "news" /\ req[q].nset = 1
    /\ req[q].key \in DOMAIN store /\ store[req[q].key].by = <<"req", q>>

\* C9: a resolution that reads the store while the entry of its key is live
\* (before the write time plus the time-to-live, and not overwritten) is a
\* hit served with what the writer stored and fetches nothing; one that reads
\* at or after that time, or finds no entry, gets null, takes the miss path
\* and calls the fetcher
TTLHonoured ==
  [][\A p \in Procs :
       (req[p].pc = "get" /\ req'[p].pc # "get" /\ events' = events) =>
         LET k == req[p].key IN
         IF k \in DOMAIN store /\ now < store[k].at + store[k].ex
         THEN /\ req'[p].cached.found /\ req'[p].cached.val = store[k].val
              /\ \A w \in Procs :
                   store[k].by = <<"req", w>> =>
                     /\ store[k].ex = EXOf(req[w].ep)
                     /\ req'[p].pc = "done"
                     /\ req'[p].res = Json(200, req[w].data)
                     /\ req'[p].nfetch = 0
         ELSE /\ req'[p].cached = NullReply
              /\ req'[p].pc = "fetch"
              /\ req'[p].nfetch = 1]_vars
\* a request read the store after the entry of its key had expired, and is
\* fetching again
TTLHonouredSeen ==
  \E p, q \in Procs :
    /\ p # q /\ req[q].key \in DOMAIN store
    /\ store[req[q].key].by = <<"req", p>>
    /\ req[q].readAt >= store[req[q].key].at + store[req[q].key].ex
    /\ req[q].pc = "fetch" /\ req[q].cached = NullReply /\ req[q].nfetch = 1

\* C10: when cli.get returns a non-empty string that JSON.parse rejects, the
\* handler answers 500, does not fetch, and leaves the store as it is
CorruptIsFatal ==
  [][\A p \in Procs :
       (req[p].pc = "get" /\ req'[p].cached.found /\ req'[p].cached.val # <<>>
          /\ JSONparse(req'[p].cached.val) = SyntaxError) =>
         /\ req'[p].pc = "done"
         /\ req'[p].res.status = 500
         /\ req'[p].nfetch = 0 /\ req'[p].nset = 0
         /\ store' = store]_vars
\* a request found text that is not JSON under its key and answered 500; the
\* text is still there
CorruptIsFatalSeen ==
  \E p \in Procs :
    /\ req[p].pc = "done" /\ req[p].res.status = 500 /\ req[p].nfetch = 0
    /\ req[p].cached.val = <<"{">>
    /\ store[req[p].key].val = <<"{">>

\* C11: GET /api/stocks answers only once: with 200 and a map of exactly the
\* five symbols, each with the price parsed from its cached entry (hit) or
\* the price its one fetch returned and stored (miss), when every symbol
\* resolved; with 500 and the fixed error object, and no map, as soon as one
\* symbol failed
StocksAllOrNothing ==
  /\ stk.pc \in {"idle", "run"} => stk.res = NoRes
  /\ stk.pc = "done" =>
       IF \E i \in DOMAIN stk.task : stk.task[i].pc = "fail"
       THEN stk.res = [status |-> 500,
                       body |-> JsObj(<< <<<<"e","r","r","o","r">>,
                                          JsStr(<<"ERROR: Failed to fetch stocks">>)>> >>)]
       ELSE /\ stk.res.status = 200
            /\ stk.res.body[1] = "object"
            /\ Len(stk.res.body[2]) = 5
            /\ \A i \in 1..5 :
                 LET t == stk.task[i] IN
                 /\ t.pc = "ok"
                 /\ stk.res.body[2][i][1] = SYMBOLS[i]
                 /\ stk.res.body[2][i][2] = t.price
                 /\ IF t.cached.found /\ t.cached.val # <<>>
                    THEN t.price = JSONparse(t.cached.val) /\ t.nfetch = 0
                    ELSE t.nfetch = 1 /\ t.nset = 1
\* a call answered 500 although some of its symbols were fetched and stored
StocksAllOrNothingSeen ==
  /\ stk.pc = "done" /\ stk.res.status = 500
  /\ \E i \in DOMAIN stk.task : stk.task[i].pc = "ok" /\ stk.task[i].nset = 1
  /\ \E i \in DOMAIN stk.task : stk.task[i].pc = "fail"

\* C12: GET /backup answers only after the sweep has attempted all 15
\* combinations, and its answer is the same text with status 200 whatever
\* the number of combinations that failed, all 15 included
BackupSynchronous ==
  /\ sw.pc # "done" => sw.res = NoRes
  /\ sw.pc = "done" =>
       /\ Len(sw.tried) = 15 /\ Len(sw.outs) = 15
       /\ \A j \in 1..15 : sw.outs[j] \in {"ok", "status", "transport", "store"}
       /\ sw.res = [status |-> 200,
                    body |-> <<"text", <<"All country-category data backed up!">>>>]
\* a sweep in which all 15 combinations failed, answered like any other
BackupSynchronousSeen ==
  /\ sw.pc = "done" /\ sw.res.status = 200
  /\ \A j \in 1..15 : sw.outs[j] = "status"
  /\ store = << >>

\* C13: whatever /api/stocks, /api/weather, /api/forecast, /api/news,
\* /api/curnews and /backup answer with a status other than 200 has status
\* 400 or 500 and a body that is a JSON object with the one member error (or
\* msg), a string
IsErrorObject(body) ==
  /\ body[1] = "object"
  /\ Len(body[2]) = 1
  /\ body[2][1][1] \in { <<"e","r","r","o","r">>, <<"m","s","g">> }
  /\ body[2][1][2][1] = "string"
Responses == {req[p].res : p \in Procs} \cup {stk.res, sw.res}
ErrorResponses ==
  \A r \in Responses :
    (r # NoRes /\ r.status # 200) => r.status \in {400, 500} /\ IsErrorObject(r.body)
\* /api/curnews answered 400 to a request without apikey and 500 to one whose
\* fetch was rejected
ErrorResponsesSeen ==
  \E p, q \in Procs :
    /\ req[p].ep = "curnews" /\ req[p].res.status = 400
    /\ req[q].ep = "curnews" /\ req[q].res.status = 500

\* the version of the provider's data a fetched body carries
VersionOf(data) == data[2][Len(data[2])][2][2]

\* C14: a resolution whose read finds no live entry fetches, also while
\* another resolution of the same key is fetching or writing; every
\* resolution whose fetch succeeded writes when its cli.set returns, and the
\* write replaces whatever entry is there with its own payload
NoSingleFlight ==
  [][\A p \in Procs :
       LET k == req[p].key IN
       /\ (req[p].pc = "get" /\ req'[p].pc # "get" /\ events' = events /\ ~Live(k)
             /\ \E q \in Procs \ {p} : req[q].key = k /\ req[q].pc \in {"fetch", "set"}) =>
            req'[p].pc = "fetch" /\ req'[p].nfetch = 1
       /\ (req[p].pc = "set" /\ req'[p] # req[p] /\ events' = events) =>
            /\ req'[p].nset = 1
            /\ store' = [kk \in DOMAIN store \cup {k} |->
                           IF kk = k
                           THEN [val |-> JSONstringify(req[p].data), at |-> now,
                                 ex |-> EXOf(req[p].ep), by |-> <<"req", p>>]
                           ELSE store[kk]]]_vars
\* two resolutions of one key both missed, fetched and wrote; the entry left
\* is the one of the resolution that fetched the older data
NoSingleFlightSeen ==
  \E p, q \in Procs :
    /\ p # q /\ req[p].key = req[q].key
    /\ req[p].cached = NullReply /\ req[q].cached = NullReply
    /\ req[p].nset = 1 /\ req[q].nset = 1
    /\ store[req[p].key].by = <<"req", p>>
    /\ store[req[p].key].val = JSONstringify(req[p].data)
    /\ VersionOf(req[p].data) < VersionOf(req[q].data)

\* C15: inside one invocation the read has returned before the fetch is
\* issued, the fetch has returned a body before the write is issued, and the
\* answer that carries a fetched body is sent only once the write is done
StepsOrdered ==
  \A p \in Procs :
    LET r == req[p] IN
    /\ r.pc = "get" =>
         r.nget = 1 /\ r.nfetch = 0 /\ r.nset = 0 /\ r.res = NoRes /\ r.data = <<"undefined">>
    /\ r.nfetch > 0 => r.nget = 1 /\ r.pc # "get" /\ ~(r.cached.found /\ r.cached.val # <<>>)
    /\ r.pc = "fetch" => r.out = "none" /\ r.nset = 0 /\ r.res = NoRes
    /\ (r.pc = "set" \/ r.nset > 0) =>
         r.out = "ok" /\ r.nfetch = 1 /\ r.data # <<"undefined">>
    /\ r.pc = "set" => r.nset = 0 /\ r.res = NoRes
    /\ (r.res.status = 200 /\ r.nfetch = 1) =>
         r.pc = "done" /\ r.nset = 1 /\ r.res.body = r.data /\ r.key \in DOMAIN store
\* a news request answered with the body it fetched and stored
StepsOrderedSeen ==
  \E p \in Procs :
    /\ req[p].ep = "news" /\ req[p].pc = "done" /\ req[p].res = Json(200, req[p].data)
    /\ req[p].nget = 1 /\ req[p].nfetch = 1 /\ req[p].nset = 1
    /\ store[req[p].key].val = JSONstringify(req[p].data)

\* C16: an invocation reads the store once; it calls the provider once if
\* the read was a miss and never otherwise, never again after a failure; it
\* writes at most once, and only after its call to the provider succeeded
SideEffectBound ==
  \A p \in Procs :
    LET r == req[p] IN
    r.pc # "idle" =>
      /\ r.nget = 1 /\ r.nfetch <= 1 /\ r.nset <= 1
      /\ r.nset = 1 => r.out = "ok"
      /\ r.out # "none" => r.nfetch = 1
      /\ r.pc = "done" =>
           /\ (r.cached.found /\ r.cached.val # <<>>) => r.nfetch = 0 /\ r.nset = 0
           /\ r.out \in FetchFailures => r.nset = 0
           /\ r.out = "ok" => r.nset = 1 \/ r.res = Json(500, ErrorBody(StoreErrMsg))
           /\ r.nfetch = 0 =>
                \/ r.cached.found /\ r.cached.val # <<>>
                \/ r.res = Json(500, ErrorBody(StoreErrMsg))
           /\ r.nfetch = 1 => r.out # "none"
\* a forecast request whose one call to the provider failed: over, no retry
SideEffectBoundSeen ==
  \E p \in Procs :
    /\ req[p].ep = "forecast" /\ req[p].pc = "done" /\ req[p].out \in FetchFailures
    /\ req[p].nget = 1 /\ req[p].nfetch = 1 /\ req[p].nset = 0

\* C19: when cli.set rejects after a successful fetch the handler answers 500
\* with an error object, not the fetched body, and the store is as before;
\* when cli.get rejects it answers 500 and fetches nothing
StoreErrorSurfaced ==
  [][\A p \in Procs :
       /\ (req[p].pc = "set" /\ req'[p] # req[p] /\ events' = events + 1) =>
            /\ req'[p].pc = "done" /\ req'[p].res.status = 500
            /\ IsErrorObject(req'[p].res.body) /\ req'[p].res.body # req[p].data
            /\ req'[p].nset = 0 /\ store' = store
       /\ (req[p].pc = "get" /\ req'[p] # req[p] /\ events' = events + 1) =>
            /\ req'[p].pc = "done" /\ req'[p].res.status = 500
            /\ IsErrorObject(req'[p].res.body)
            /\ req'[p].nfetch = 0 /\ req'[p].nset = 0 /\ store' = store]_vars
\* a weather request fetched its body, could not store it and answered 500
StoreErrorSurfacedSeen ==
  \E p \in Procs :
    /\ req[p].ep = "weather" /\ req[p].pc = "done" /\ req[p].out = "ok"
    /\ req[p].nset = 0 /\ req[p].res.status = 500
    /\ req[p].key \notin DOMAIN store

\* C17: the sweep fetches every combination without consulting the store,
\* also when a live entry exists for the key; when the fetch and the write
\* succeed the entry becomes the fetched body with a time-to-live of 21600
\* seconds counted from the write; when the combination fails the store is
\* left as it was
SweepBypassesCache ==
  [][LET j == Len(sw.outs) + 1
         k == <<"g","n","e","w","s",":">> \o ComboParams(j)[1] \o <<":">> \o ComboParams(j)[2]
     IN
     /\ sw'.tried # sw.tried => sw'.pc = "fetch"
     /\ (sw.pc = "fetch" /\ sw'.pc = "set") =>
          sw'.data = UpstreamData("news", ComboParams(j), ver) /\ store' = store
     /\ (sw.pc = "set" /\ Len(sw'.outs) = j /\ sw'.outs[j] = "ok") =>
          store' = [kk \in DOMAIN store \cup {k} |->
                      IF kk = k
                      THEN [val |-> JSONstringify(sw.data), at |-> now, ex |-> 21600,
                            by |-> <<"sweep">>]
                      ELSE store[kk]]
     /\ (sw.pc \in {"fetch", "set"} /\ Len(sw'.outs) = j /\ sw'.outs[j] # "ok") =>
          store' = store]_vars
\* the sweep replaced the live entry a news request had written earlier, with
\* newer data and a later expiry
SweepBypassesCacheSeen ==
  /\ req[1].ep = "news" /\ req[1].nset = 1 /\ req[1].readAt = 0
  /\ req[1].key \in DOMAIN store
  /\ store[req[1].key].by = <<"sweep">>
  /\ store[req[1].key].at > 0 /\ store[req[1].key].at < NewsEX
  /\ VersionOf(JSONparse(store[req[1].key].val)) > VersionOf(req[1].data)

\* the order the claim states
StatedOrder ==
  LET cs == << <<"u","s">>, <<"s","g">>, <<"i","n">> >>
      gs == << <<"g","e","n","e","r","a","l">>, <<"n","a","t","i","o","n">>,
               <<"b","u","s","i","n","e","s","s">>,
               <<"t","e","c","h","n","o","l","o","g","y">>,
               <<"e","n","t","e","r","t","a","i","n","m","e","n","t">> >>
  IN  [j \in 1..15 |-> <<cs[((j - 1) \div 5) + 1], gs[((j - 1) % 5) + 1]>>]

\* C18: the sweep takes the combinations in the order us, sg, in and, inside
\* each, general, nation, business, technology, entertainment; a combination
\* is started only when the one before it has been stored or has failed, so
\* at most one is unfinished at any time
SweepSequential ==
  /\ Len(sw.tried) <= 15
  /\ \A j \in 1..Len(sw.tried) :
       <<countries[sw.tried[j][1]], categories[sw.tried[j][2]]>> = StatedOrder[j]
  /\ \A j \in 1..Len(sw.log) : <<sw.log[j][2], sw.log[j][3]>> = StatedOrder[j]
  /\ Len(sw.tried) - Len(sw.outs) = IF sw.pc \in {"fetch", "set"} THEN 1 ELSE 0
  /\ sw.pc = "fetch" => sw.data = <<"undefined">>
\* the sweep is fetching sg-nation, its seventh combination, after the sixth failed
SweepSequentialSeen ==
  /\ sw.pc = "fetch" /\ Len(sw.tried) = 7 /\ Len(sw.outs) = 6
  /\ SweepParams(sw) = << <<"s","g">>, <<"n","a","t","i","o","n">> >>
  /\ sw.outs[6] # "ok"

\* C20: when the provider has no data for a symbol the price is null, the
\* text null is stored under the symbol's key and the symbol resolves; a
\* later call that finds that text is a hit with price null and no fetch
NullQuoteCached ==
  \A i \in DOMAIN stk.task :
    LET t == stk.task[i]
        k == <<"s","t","o","c","k",":">> \o SYMBOLS[i]
    IN
    /\ (t.pc \in {"set", "ok"} /\ t.nfetch = 1) => t.price # <<"undefined">>
    /\ (t.nset = 1 /\ t.price = JsNull) =>
         /\ t.pc = "ok"
         /\ store[k].by = <<"stock", i>> => store[k].val = <<"n","u","l","l">>
         /\ stk.res.status = 200 => stk.res.body[2][i] = <<SYMBOLS[i], JsNull>>
    /\ (t.cached.found /\ t.cached.val = <<"n","u","l","l">>) =>
         /\ t.pc = "ok" /\ t.price = JsNull /\ t.nfetch = 0 /\ t.nset = 0
         /\ stk.res.status = 200 => stk.res.body[2][i] = <<SYMBOLS[i], JsNull>>
\* a second call answered 200 with a null price taken from the store
NullQuoteCachedSeen ==
  /\ calls = 2 /\ stk.pc = "done" /\ stk.res.status = 200
  /\ \E i \in DOMAIN stk.task :
       /\ stk.task[i].cached.found /\ stk.task[i].cached.val = <<"n","u","l","l">>
       /\ stk.task[i].cached.by = <<"stock", i>>
       /\ stk.task[i].nfetch = 0
       /\ stk.res.body[2][i][2] = JsNull

\* the bodies the providers have returned so far for a request
FetchedBodies(ep, params) == {UpstreamData(ep, params, v) : v \in 0..ver}

NewEntries(s) == {i \in DOMAIN s.task : s.task[i].nset = 1}

\* C22: the rejection that settles /api/stocks with the 500 leaves every
\* sibling as it is; while the 500 stands a sibling's cli.set is still
\* applied and does not change the answer, and a failed call has written
\* between 0 and 4 entries
SiblingsNotCancelled ==
  [][/\ (stk.pc = "run" /\ stk'.pc = "done" /\ stk'.res.status = 500) =>
          /\ Cardinality({j \in DOMAIN stk.task : stk'.task[j] # stk.task[j]}) = 1
          /\ \A j \in DOMAIN stk.task :
               stk'.task[j] # stk.task[j] => stk'.task[j].pc = "fail" /\ stk'.task[j].nset = 0
     /\ (stk.pc = "done" /\ stk.res.status = 500 /\ stk'.pc = "done") =>
          /\ stk'.res = stk.res
          /\ \A j \in DOMAIN stk.task :
               (stk.task[j].pc = "set" /\ stk'.task[j].pc = "ok") =>
                 /\ redisStockKey(SYMBOLS[j]) \in DOMAIN store'
                 /\ store'[redisStockKey(SYMBOLS[j])] =
                      [val |-> JSONstringify(stk.task[j].price), at |-> now,
                       ex |-> StockEX, by |-> <<"stock", j>>]
                 /\ stk'.task[j].nset = 1
     /\ (stk'.pc = "done" /\ stk'.res.status = 500) =>
          Cardinality(NewEntries(stk')) \in 0..(Len(SYMBOLS) - 1)
    ]_vars
\* the 500 stands, nothing is written yet and the four siblings of the
\* failed resolution are each about to issue their cli.set
SiblingsNotCancelledSeen ==
  /\ stk.pc = "done" /\ stk.res.status = 500
  /\ NewEntries(stk) = {}
  /\ Cardinality({i \in DOMAIN stk.task : stk.task[i].pc = "set"}) = Len(SYMBOLS) - 1
\* a failed call whose four siblings have all written after all
FourWrittenSeen ==
  /\ stk.pc = "done" /\ stk.res.status = 500
  /\ Cardinality(NewEntries(stk)) = Len(SYMBOLS) - 1
  /\ \A i \in NewEntries(stk) : store[redisStockKey(SYMBOLS[i])].by = <<"stock", i>>

\* key k holds a live, non-empty value that JSON.parse rejects
CorruptEntry(k) ==
  /\ Live(k)
  /\ store[k].val # <<>>
  /\ JSONparse(store[k].val) = SyntaxError
NewsKey(k) == HasPrefix(k, <<"g","n","e","w","s",":">>)

\* C23 as stated: while a weather, forecast or stock key holds a corrupt
\* value, no handler and no sweep replaces it; it stays until it expires
\* (or another client of the store rewrites it)
CorruptOnlyExpires ==
  [][\A k \in DOMAIN store :
       (CorruptEntry(k) /\ ~NewsKey(k)) =>
         (store'[k] = store[k] \/ store'[k].by = <<"ext">>)]_vars

\* C23: while a key holds a corrupt value, every handler resolution that
\* reads the key ends in the 500 without a fetch and without a write; the
\* value is replaced only by another client, by the sweep's write of that
\* news combination, or by the cli.set of a resolution whose own read came
\* before and found no usable value
CorruptNotRepaired ==
  [][\A k \in DOMAIN store :
       CorruptEntry(k) =>
         /\ \A p \in Procs :
              (req[p].pc = "get" /\ req[p].key = k /\ req'[p] # req[p]) =>
                /\ req'[p].pc = "done" /\ req'[p].res.status = 500
                /\ req'[p].nfetch = 0 /\ req'[p].nset = 0
                /\ store' = store
         /\ \A i \in DOMAIN stk.task :
              (stk.task[i].pc = "get" /\ redisStockKey(SYMBOLS[i]) = k
                 /\ stk'.task[i] # stk.task[i]) =>
                /\ stk'.task[i].pc = "fail" /\ stk'.res.status = 500
                /\ stk'.task[i].nfetch = 0 /\ stk'.task[i].nset = 0
                /\ store' = store
         /\ store'[k] # store[k] =>
              \/ store'[k].by = <<"ext">>
              \/ /\ store'[k].by = <<"sweep">> /\ sw.pc = "set" /\ NewsKey(k)
                 /\ k = redisKey(SweepParams(sw)[1], SweepParams(sw)[2])
                 /\ JSONparse(store'[k].val) # SyntaxError
              \/ \E p \in Procs :
                   /\ store'[k].by = <<"req", p>> /\ req[p].pc = "set" /\ req[p].key = k
                   /\ ~Truthy(req[p].cached)
                   /\ JSONparse(store'[k].val) # SyntaxError
              \/ \E i \in DOMAIN stk.task :
                   /\ store'[k].by = <<"stock", i>> /\ stk.task[i].pc = "set"
                   /\ ~Truthy(stk.task[i].cached)]_vars
\* a second /api/stocks call has read a corrupt quote, has failed on it with
\* the 500 without fetching, and the corrupt value is still there
CorruptNotRepairedSeen ==
  \E i \in DOMAIN stk.task :
    /\ stk.pc = "done" /\ stk.res.status = 500
    /\ stk.task[i].pc = "fail" /\ stk.task[i].cached.val = <<"{">>
    /\ stk.task[i].nfetch = 0
    /\ CorruptEntry(redisStockKey(SYMBOLS[i]))
    /\ store[redisStockKey(SYMBOLS[i])].by = <<"ext">>

\* C24: every step of a /api/curnews invocation leaves the store as it is
\* and the invocation issues no cli.get and no cli.set; without an apikey
\* it has answered 400 and fetched nothing; with one it has issued one
\* fetch, whose address ends in the apikey of the request
CurnewsFrame ==
  [][\A p \in Procs :
       (req'[p].ep = "curnews" /\ req'[p] # req[p]) =>
         /\ store' = store
         /\ req'[p].nget = 0 /\ req'[p].nset = 0
         /\ LET apikey == req'[p].params[2]
                url == req'[p].url
            IN IF apikey \in { <<"undefined">>, <<>> }
               THEN /\ req'[p].pc = "done" /\ req'[p].res.status = 400
                    /\ req'[p].nfetch = 0 /\ url = <<>>
               ELSE /\ req'[p].nfetch = 1
                    /\ Len(url) > Len(apikey)
                    /\ SubSeq(url, Len(url) - Len(apikey) + 1, Len(url)) = apikey
                    /\ url[Len(url) - Len(apikey)] = "&apiKey="]_vars
\* a /api/curnews invocation with an apikey has answered from its one fetch
\* while the store holds a weather entry, and one without has answered 400
CurnewsFrameSeen ==
  \E p, q \in Procs :
    /\ req[p].ep = "curnews" /\ req[p].pc = "done" /\ req[p].res.status = 200
    /\ req[p].nfetch = 1 /\ req[p].params[2] = <<"k">>
    /\ req[q].ep = "weather" /\ req[q].nset = 1 /\ Live(req[q].key)
\* without an apikey the answer is the 400 and nothing was fetched
CurnewsMissingKeySeen ==
  \E p \in Procs :
    /\ req[p].ep = "curnews" /\ req[p].params[2] = <<>> /\ req[p].res.status = 400
    /\ req[p].nfetch = 0

====
